---- MODULE Spec2Model ----
(***************************************************************************)
(* A model of pyhkp, an OpenPGP HTTP Keyserver Protocol server             *)
(* (src/pyhkp.py).  Strings are sequences of one-character strings.  Three  *)
(* characters outside ASCII are modelled: U+00E9 and its uppercase U+00C9, *)
(* and U+0131, whose uppercase is the ASCII letter I.  The gpgme context   *)
(* `ctx` is the shared key store; the Flask handlers are the operations.   *)
(* Python 2 semantics: request parameters are unicode, and str() of a      *)
(* unicode value with a non-ASCII character raises UnicodeEncodeError.     *)
(***************************************************************************)
EXTENDS Naturals, Sequences, FiniteSets

VARIABLES
    store,   \* the keyring behind ctx: key names in enumeration order
    req,     \* per request in flight: parameters, position, locals, outcome
    raw,     \* clean_search study: the input string
    phase,   \* clean_search study: "input" | "cleaned"
    cleaned  \* clean_search study: the value clean_search returned

vars == <<store, req, raw, phase, cleaned>>

----------------------------------------------------------------------------
(* Characters and strings *)

LowerSeq == <<"a","b","c","d","e","f","g","h","i","j","k","l","m",
              "n","o","p","q","r","s","t","u","v","w","x","y","z">>
UpperSeq == <<"A","B","C","D","E","F","G","H","I","J","K","L","M",
              "N","O","P","Q","R","S","T","U","V","W","X","Y","Z">>

LowerAZ == {LowerSeq[i] : i \in 1..Len(LowerSeq)}
UpperAZ == {UpperSeq[i] : i \in 1..Len(UpperSeq)}

\* Characters outside ASCII: e-acute, its uppercase, and the dotless i
NonAscii == "U+00E9"
NonAsciiUpper == "U+00C9"
DotlessI == "U+0131"
NonAsciiChars == {NonAscii, NonAsciiUpper, DotlessI}

\* unicode.upper() / unicode.lower() on one character.  The uppercase of
\* U+0131 is the ASCII letter I; its lowercase is itself.
upper(c) == IF c \in LowerAZ
            THEN UpperSeq[CHOOSE i \in 1..Len(LowerSeq) : LowerSeq[i] = c]
            ELSE IF c = DotlessI THEN "I"
            ELSE IF c = NonAscii THEN NonAsciiUpper
            ELSE c
lower(c) == IF c \in UpperAZ
            THEN LowerSeq[CHOOSE i \in 1..Len(UpperSeq) : UpperSeq[i] = c]
            ELSE IF c = NonAsciiUpper THEN NonAscii
            ELSE c

str_upper(s) == [i \in 1..Len(s) |-> upper(s[i])]
str_lower(s) == [i \in 1..Len(s) |-> lower(s[i])]

\* Python's `a in b` on strings: a occurs in b as a contiguous substring.
str_in(a, b) == \E i \in 0..Len(b) : i + Len(a) <= Len(b) /\ SubSeq(b, i + 1, i + Len(a)) = a

\* "\n".join(items) for a sequence of strings
RECURSIVE join(_)
join(items) == IF items = <<>> THEN <<>>
               ELSE IF Len(items) = 1 THEN items[1]
               ELSE items[1] \o <<"\n">> \o join(Tail(items))

\* Optional request parameters: flask.request.args.get(name, None)
None == [present |-> FALSE, value |-> <<>>]
Some(v) == [present |-> TRUE, value |-> v]

----------------------------------------------------------------------------
(* clean_search and clean_op *)

\* search_re = re.compile("^0x", re.IGNORECASE); search_re.sub('', s):
\* the anchored pattern matches at most once, at the start.
search_re_sub(s) == IF Len(s) >= 2 /\ s[1] = "0" /\ s[2] \in {"x", "X"}
                    THEN SubSeq(s, 3, Len(s))
                    ELSE s

\* str(n) for a natural number: its decimal digits
Digits == <<"0","1","2","3","4","5","6","7","8","9">>
RECURSIVE decimal(_)
decimal(n) == IF n < 10 THEN <<Digits[n + 1]>>
              ELSE decimal(n \div 10) \o <<Digits[(n % 10) + 1]>>

\* How the message of a UnicodeEncodeError writes the character it names
repr_char(c) == IF c = NonAscii THEN "u'\\xe9'"
                ELSE IF c = NonAsciiUpper THEN "u'\\xc9'"
                ELSE "u'\\u0131'"

\* str(UnicodeEncodeError): the ascii codec reports the first run of
\* characters it cannot encode, by its zero-based positions.
encode_error(u) ==
    LET start == CHOOSE i \in 1..Len(u) :
                    u[i] \in NonAsciiChars /\ \A j \in 1..(i - 1) : u[j] \notin NonAsciiChars
        end == CHOOSE i \in start..Len(u) :
                    /\ \A j \in start..i : u[j] \in NonAsciiChars
                    /\ (i = Len(u) \/ u[i + 1] \notin NonAsciiChars)
    IN IF end = start
       THEN <<"'ascii' codec can't encode character ", repr_char(u[start]), " in position ">>
            \o decimal(start - 1) \o <<": ordinal not in range(128)">>
       ELSE <<"'ascii' codec can't encode characters in position ">>
            \o decimal(start - 1) \o <<"-">> \o decimal(end - 1)
            \o <<": ordinal not in range(128)">>

\* str(u) in Python 2: the ascii codec rejects any non-ASCII character.
to_str(u) == IF \E i \in 1..Len(u) : u[i] \in NonAsciiChars
             THEN [exc |-> "UnicodeEncodeError", value |-> <<>>, msg |-> encode_error(u)]
             ELSE [exc |-> "none", value |-> u, msg |-> <<>>]

clean_search(s) == to_str(str_upper(search_re_sub(s)))

\* op_re.sub('', s) mutated: the pattern written as "[^a-z_]"
op_re_sub_underscore(s) == SelectSeq(s, LAMBDA c : c \in LowerAZ \cup {"_"})

\* op_re = re.compile("[^a-z]"); op_re.sub('', s): every character that is
\* not a lowercase letter is removed (uppercase letters included).
op_re_sub(s) == SelectSeq(s, LAMBDA c : c \in LowerAZ)

clean_op(s) == str_lower(op_re_sub(s))

----------------------------------------------------------------------------
(* The key store behind ctx *)

S_get == <<"g","e","t">>
S_index == <<"i","n","d","e","x">>
S_vindex == <<"v","i","n","d","e","x">>

FprA == <<"A","B","1","2">>
FprB == <<"C","D","3","4">>
FprC == <<"E","F","5","6">>

\* The keys that can be submitted.  subkeys[1] is the primary key.
KeyRing == [K1 |-> [uids |-> << <<"T","e","s","t">> >>, subkeys |-> <<FprA, FprB>>],
            K2 |-> [uids |-> << <<"t","e","s","t","2">> >>, subkeys |-> <<FprC>>]]

KeyNames == DOMAIN KeyRing

\* The key records of a sequence of key names
keylist(st) == [i \in 1..Len(st) |-> KeyRing[st[i]]]

\* What the store can answer when the key iterator is asked for its next key
KeylistAnswers == {"key", "end", "GpgmeError"}

\* next() on the iterator ctx.keylist() returned, with `pos` keys passed.
\* Left alone, the listing yields the store's keys in order, a key imported
\* meanwhile included, and then stops.  The context holds one operation at
\* a time: once another request has used ctx during the listing
\* (`disturbed`), what the engine yields is not determined: any key of the
\* store (position j), the end of the listing, or an error.
keylist_next(st, pos, disturbed, ans, j) ==
    IF ans = "GpgmeError"
    THEN [exc |-> "GpgmeError", stop |-> FALSE, key |-> "", pos |-> pos]
    ELSE IF disturbed
    THEN IF ans = "end" \/ j = 0
         THEN [exc |-> "none", stop |-> TRUE, key |-> "", pos |-> pos]
         ELSE [exc |-> "none", stop |-> FALSE, key |-> st[j], pos |-> j]
    ELSE IF pos < Len(st)
    THEN [exc |-> "none", stop |-> FALSE, key |-> st[pos + 1], pos |-> pos + 1]
    ELSE [exc |-> "none", stop |-> TRUE, key |-> "", pos |-> pos]

\* The keys of the store that a fingerprint pattern names
named(st, pattern) == SelectSeq(st, LAMBDA k :
                         \E i \in 1..Len(KeyRing[k].subkeys) : KeyRing[k].subkeys[i] = pattern)

\* ctx.get_key(search) with the try/except around it: "found" when the store
\* returns a key; gpgme raises GpgmeError both when no key has the
\* fingerprint ("notfound") and when the query itself fails ("error").
get_key(st, search, err) == IF err THEN "error"
                            ELSE IF named(st, search) # <<>> THEN "found"
                            ELSE "notfound"

\* The ASCII-armored block of one key
armor(k) == <<"-----BEGIN PGP PUBLIC KEY BLOCK-----", k, "-----END PGP PUBLIC KEY BLOCK-----">>

RECURSIVE armor_all(_)
armor_all(ks) == IF ks = <<>> THEN <<>> ELSE armor(Head(ks)) \o armor_all(Tail(ks))

\* What the store can answer to an export call
ExportAnswers == {"bytes", "empty", "GpgmeError"}

\* ctx.export(search, keydata): the bytes written into keydata
export(st, search, ans) ==
    IF ans = "GpgmeError" THEN [exc |-> "GpgmeError", bytes |-> <<>>]
    ELSE IF ans = "empty" THEN [exc |-> "none", bytes |-> <<>>]
    ELSE [exc |-> "none", bytes |-> armor_all(named(st, search))]

\* bool(keydata) for a BytesIO object: the class defines neither __len__ nor
\* __nonzero__, so the object is true whatever it holds.
bool_BytesIO(bytes) == TRUE

\* What the store can answer to an import call
ImportAnswers == {"result", "None", "GpgmeError"}

RECURSIVE import_keys(_, _)
import_keys(st, ks) ==
    IF ks = <<>> THEN st
    ELSE import_keys(IF \E i \in 1..Len(st) : st[i] = Head(ks) THEN st ELSE Append(st, Head(ks)),
                     Tail(ks))

\* The keys a submitted text holds: the text "K1" stands for the armored
\* block of key K1, "K2" for that of K2
RECURSIVE parse_keys(_)
parse_keys(text) ==
    IF Len(text) < 2 THEN <<>>
    ELSE IF text[1] = "K" /\ text[2] = "1" THEN <<"K1">> \o parse_keys(SubSeq(text, 3, Len(text)))
    ELSE IF text[1] = "K" /\ text[2] = "2" THEN <<"K2">> \o parse_keys(SubSeq(text, 3, Len(text)))
    ELSE parse_keys(Tail(text))

\* Messages a GpgmeError of the engine can carry (err[2]); the text is the
\* engine's, and add() passes whatever it is into its response
GpgmeMessages == {"General error", "No data"}

\* ctx.import_(keydata): the store after the call and the ImportResult, or
\* the GpgmeError raised, carrying the message msg
import_(st, keydata, ans, msg) ==
    LET ks == parse_keys(keydata)
        st2 == import_keys(st, ks)
    IN IF ans = "GpgmeError"
       THEN [exc |-> "GpgmeError", msg |-> <<msg>>, store |-> st, truthy |-> FALSE,
             imported |-> 0, imports |-> <<>>]
       ELSE IF ans = "None"
       THEN [exc |-> "none", msg |-> <<>>, store |-> st, truthy |-> FALSE,
             imported |-> 0, imports |-> <<>>]
       ELSE [exc |-> "none", msg |-> <<>>, store |-> st2, truthy |-> TRUE,
             imported |-> Len(st2) - Len(st),
             imports |-> [i \in 1..Len(ks) |-> KeyRing[ks[i]].subkeys[1]]]

----------------------------------------------------------------------------
(* Requests and responses *)

Requests == {"r1", "r2"}

Idle == [route |-> "none", op |-> None, search |-> None, keytext |-> None,
         pc |-> "idle", handler |-> <<>>, term |-> <<>>,
         match |-> "none", answer |-> "none", keydata |-> <<>>, listed |-> <<>>,
         pos |-> 0, matches |-> <<>>, disturbed |-> FALSE,
         imported |-> 0, imports |-> <<>>,
         status |-> 0, body |-> <<>>, mimetype |-> "", exc |-> "none",
         calls |-> <<>>, seen |-> <<>>]

\* return flask.make_response(body, status)
make_response(q, body, status) ==
    [q EXCEPT !.pc = "done", !.status = status, !.body = body, !.mimetype = "text/html"]

\* an exception leaves the view function
raise(q, e) == [q EXCEPT !.pc = "done", !.exc = e]

\* a store call is made
called(q, name) == [q EXCEPT !.calls = Append(@, name)]

\* ctx is one object shared by all requests: when request r has used it in
\* a step (q2 is r after the step), every other request in the middle of a
\* listing has had its listing disturbed.
shared_ctx(rq, r, q2) ==
    [x \in Requests |->
        IF x = r THEN q2
        ELSE IF rq[x].pc = "listing" /\ (q2.calls # rq[r].calls \/ rq[r].pc = "listing")
        THEN [rq[x] EXCEPT !.disturbed = TRUE]
        ELSE rq[x]]

----------------------------------------------------------------------------
(* LookupOpHandler *)

MinSearchLen == 4

\* LookupOpHandler.get up to the key query (the export follows in get_export)
get(q, st, err) ==
    IF ~q.search.present
    THEN make_response(q, <<"Missing required search parameter">>, 500)
    ELSE LET c == clean_search(q.search.value) IN
         IF c.exc # "none" THEN raise(q, c.exc)
         ELSE LET search == c.value
                  match == get_key(st, search, err)
                  q1 == [called(q, "get_key") EXCEPT !.term = search, !.match = match]
              IN IF match # "found"
                 THEN make_response(q1, <<"No key matching search=">> \o search, 404)
                 ELSE [q1 EXCEPT !.pc = "export"]

\* LookupOpHandler.get from the export on
get_export(q, st, ans) ==
    LET keydata == export(st, q.term, ans)
        q1 == [called(q, "export") EXCEPT !.answer = ans, !.keydata = keydata.bytes]
    IN IF keydata.exc # "none" THEN raise(q1, keydata.exc)
       ELSE IF bool_BytesIO(keydata.bytes)
       THEN [make_response(q1, keydata.bytes, 200) EXCEPT !.mimetype = "text/plain"]
       ELSE make_response(q1, <<"No key matching search=">> \o q.term, 404)

\* len(search) < 4
too_short(search) == Len(search) < MinSearchLen

\* the uid loop: match_uid after `for uid in k.uids`
uid_loop(k, search) == \E i \in 1..Len(k.uids) : str_in(search, str_upper(k.uids[i]))

\* the subkey loop: the fingerprints one key appends to matches
subkey_loop(k, match_uid, search) ==
    SelectSeq(k.subkeys, LAMBDA fpr : match_uid \/ str_in(search, fpr))

\* one pass of `for k in ctx.keylist()`: matches after the body has run on k
key_loop(matches, k, search) == matches \o subkey_loop(k, uid_loop(k, search), search)

\* LookupOpHandler.index up to the call of ctx.keylist(); the iteration
\* follows in index_next
index(q, st, err) ==
    IF ~q.search.present
    THEN make_response(q, <<"Missing required argument: search">>, 400)
    ELSE LET c == clean_search(q.search.value) IN
         IF c.exc # "none" THEN raise(q, c.exc)
         ELSE LET search == c.value
                  q0 == [q EXCEPT !.term = search]
              IN IF too_short(search)
                 THEN make_response(q0, <<"Search must be at least four characters">>, 500)
                 ELSE LET q1 == called(q0, "keylist") IN
                      IF err THEN raise([q1 EXCEPT !.answer = "error"], "GpgmeError")
                      ELSE [q1 EXCEPT !.pc = "listing"]

\* LookupOpHandler.index after the loop
index_end(q) ==
    IF q.matches # <<>>
    THEN [make_response(q, join(q.matches), 200) EXCEPT !.mimetype = "text/plain"]
    ELSE make_response(q, <<"No keys matching search request: ">> \o q.term, 404)

\* LookupOpHandler.index: the iterator is asked for the next key, and the
\* loop body runs on it or the loop ends
index_next(q, st, ans, j) ==
    LET item == keylist_next(st, q.pos, q.disturbed, ans, j) IN
    IF item.exc # "none" THEN raise([q EXCEPT !.answer = "error"], item.exc)
    ELSE IF item.stop THEN index_end([q EXCEPT !.answer = "listed"])
    ELSE [q EXCEPT !.pos = item.pos,
                   !.listed = Append(@, item.key),
                   !.matches = key_loop(@, KeyRing[item.key], q.term)]

\* LookupOpHandler.vindex
vindex(q) == make_response(q, <<"VIndex search not supported by this server.">>, 501)

----------------------------------------------------------------------------
(* /pks/lookup *)

S_doc == <<"_","_","d","o","c","_","_">>
S_module == <<"_","_","m","o","d","u","l","e","_","_">>
S_name == <<"_","_","n","a","m","e","_","_">>
S_dict == <<"_","_","d","i","c","t","_","_">>
S_bases == <<"_","_","b","a","s","e","s","_","_">>

\* The attributes getattr finds on LookupOpHandler, a class without a base
\* (an old-style class): its three static methods, the __doc__ and
\* __module__ the class statement stores, and the __name__, __dict__ and
\* __bases__ every such class answers.
ClassMembers == {S_get, S_index, S_vindex, S_doc, S_module, S_name, S_dict, S_bases}

\* getattr(LookupOpHandler, op, None): the attribute, named by its name
getattr(op) == IF op \in ClassMembers THEN Some(op) ELSE None

\* `if handler:` -- None is false, and so is __bases__, the empty tuple;
\* the functions, the strings and the non-empty __dict__ are true
bool_handler(handler) == handler.present /\ handler.value # S_bases

\* handler(): the attribute found is called
call(h, q, st, err) ==
    IF h = S_get THEN get([q EXCEPT !.handler = h], st, err)
    ELSE IF h = S_index THEN index([q EXCEPT !.handler = h], st, err)
    ELSE IF h = S_vindex THEN vindex([q EXCEPT !.handler = h])
    ELSE raise(q, "TypeError")    \* a str or dict object is not callable

\* lookup(): clean_op(None) makes re.sub raise TypeError
lookup(q, st, err) ==
    IF ~q.op.present THEN raise(q, "TypeError")
    ELSE LET op == clean_op(q.op.value) IN
         IF op # <<>>
         THEN LET handler == getattr(op) IN
              IF bool_handler(handler)
              THEN call(handler.value, q, st, err)
              ELSE make_response(q, <<"Operation not supported: ">> \o op, 501)
         ELSE make_response(q, <<"Missing required argument: op">>, 400)

----------------------------------------------------------------------------
(* /pks/add *)

\* resp_code mutated: `if result.imports`
resp_code_imports(result) == IF result.imports # <<>> THEN 201 ELSE 200

\* resp_code = 200; if result.imported: resp_code = 201
resp_code(result) == IF result.imported # 0 THEN 201 ELSE 200

\* add(): the request after the handler, and the store after it.
\* flask.request.form['keytext'] raises BadRequestKeyError on a missing field.
add(q, st, ans, msg) ==
    IF ~q.keytext.present
    THEN [q |-> raise(q, "BadRequestKeyError"), store |-> st]
    ELSE LET s == to_str(q.keytext.value) IN
         IF s.exc # "none"
         THEN [q |-> make_response([q EXCEPT !.answer = s.exc],
                                   <<"Invalid characters in request: ">> \o s.msg, 400),
               store |-> st]
         ELSE LET result == import_(st, s.value, ans, msg)
                  q1 == [called(q, "import_") EXCEPT !.answer = ans,
                                                     !.imported = result.imported,
                                                     !.imports = result.imports]
              IN IF result.exc # "none"
                 THEN [q |-> make_response(q1, <<"GPGME: ">> \o result.msg, 403), store |-> result.store]
                 ELSE IF result.truthy
                 THEN [q |-> make_response(q1, <<"Keys imported:\n">> \o join(result.imports),
                                           resp_code(result)),
                       store |-> result.store]
                 ELSE [q |-> make_response(q1,
                                 <<"No keys were imported due to an unknown error">>, 404),
                       store |-> result.store]

----------------------------------------------------------------------------
(* Requests the clients send *)

OpInputs == {None, Some(<<>>), Some(S_get), Some(S_index), Some(S_vindex),
             Some(<<"G","e","t","!","!">>)}

\* `op` values that name the class's other attributes
ReservedOps == {Some(S_doc), Some(S_module), Some(S_name), Some(S_dict), Some(S_bases)}

SearchInputs == {None, Some(<<"0","x","A","B","1","2">>), Some(<<"C","D","3","4">>),
                 Some(<<"t","e","s","t">>), Some(<<"0","x","a","b","c">>),
                 Some(<<NonAscii>>), Some(<<DotlessI, "b", "c">>)}

\* The (op, search) pairs of the lookup requests
LookupInputs == (OpInputs \X SearchInputs) \cup (ReservedOps \X {None})

KeytextInputs == {None, Some(<<"K", "1">>), Some(<<"K", "2">>),
                  Some(<<"K", "1", "K", "2">>), Some(<<"K", "1", NonAscii>>)}

----------------------------------------------------------------------------
(* The server: concurrent requests against one store *)

NoStudy == raw = <<>> /\ phase = "input" /\ cleaned = to_str(<<>>)

Init == /\ store = <<>>
        /\ req = [r \in Requests |-> Idle]
        /\ NoStudy

\* A client sends GET /pks/lookup
IssueLookup(r) ==
    /\ req[r].pc = "idle"
    /\ \E p \in LookupInputs :
          req' = [req EXCEPT ![r] = [Idle EXCEPT !.route = "lookup", !.op = p[1],
                                                 !.search = p[2], !.pc = "recv",
                                                 !.seen = store]]
    /\ UNCHANGED <<store, raw, phase, cleaned>>

\* A client sends POST /pks/add
IssueAdd(r) ==
    /\ req[r].pc = "idle"
    /\ \E keytext \in KeytextInputs :
          req' = [req EXCEPT ![r] = [Idle EXCEPT !.route = "add", !.keytext = keytext,
                                                 !.pc = "recv", !.seen = store]]
    /\ UNCHANGED <<store, raw, phase, cleaned>>

\* The keys a disturbed listing is followed for
MaxFetch == 2

\* lookup() runs, up to its response, to the point before ctx.export, or to
\* the start of the loop over ctx.keylist()
Lookup(r) ==
    /\ req[r].pc = "recv" /\ req[r].route = "lookup"
    /\ \E err \in BOOLEAN : req' = shared_ctx(req, r, lookup(req[r], store, err))
    /\ UNCHANGED <<store, raw, phase, cleaned>>

\* LookupOpHandler.get resumes with ctx.export
Export(r) ==
    /\ req[r].pc = "export"
    /\ \E ans \in ExportAnswers : req' = shared_ctx(req, r, get_export(req[r], store, ans))
    /\ UNCHANGED <<store, raw, phase, cleaned>>

\* LookupOpHandler.index resumes: one pass of the loop over ctx.keylist()
IndexNext(r) ==
    /\ req[r].pc = "listing"
    /\ \E ans \in KeylistAnswers, j \in 0..Len(store) :
          /\ IF ans = "key" /\ req[r].disturbed
             THEN j > 0 /\ Len(req[r].listed) < MaxFetch
             ELSE j = 0
          /\ req' = shared_ctx(req, r, index_next(req[r], store, ans, j))
    /\ UNCHANGED <<store, raw, phase, cleaned>>

\* add() runs
Add(r) ==
    /\ req[r].pc = "recv" /\ req[r].route = "add"
    /\ \E ans \in ImportAnswers, msg \in GpgmeMessages :
          /\ ans # "GpgmeError" => msg = "General error"   \* read from an error only
          /\ LET out == add(req[r], store, ans, msg)
             IN req' = shared_ctx(req, r, out.q) /\ store' = out.store
    /\ UNCHANGED <<raw, phase, cleaned>>

\* The response is sent and the request's values are discarded
Finish(r) ==
    /\ req[r].pc = "done"
    /\ req' = [req EXCEPT ![r] = Idle]
    /\ UNCHANGED <<store, raw, phase, cleaned>>

Next == \E r \in Requests :
           \/ IssueLookup(r)
           \/ IssueAdd(r)
           \/ Lookup(r)
           \/ Export(r)
           \/ IndexNext(r)
           \/ Add(r)
           \/ Finish(r)

Spec == Init /\ [][Next]_vars

----------------------------------------------------------------------------
(* clean_search on its own, over every string up to a length *)

MaxStrLen == 6

SearchAlphabet == {"0", "x", "X", "A", "B", NonAscii, DotlessI}

SearchStrings == UNION {[1..n -> SearchAlphabet] : n \in 0..MaxStrLen}

InitCleanSearch == /\ store = <<>>
                   /\ req = [r \in Requests |-> Idle]
                   /\ raw \in SearchStrings
                   /\ phase = "input"
                   /\ cleaned = to_str(<<>>)

CleanSearch == /\ phase = "input"
               /\ cleaned' = clean_search(raw)
               /\ phase' = "cleaned"
               /\ UNCHANGED <<store, req, raw>>

NextCleanSearch == CleanSearch

SpecCleanSearch == InitCleanSearch /\ [][NextCleanSearch]_vars

----------------------------------------------------------------------------
(* Properties *)

Ops == {S_get, S_index, S_vindex}

Statuses == {200, 201, 400, 403, 404, 500, 501}

\* The lookup requests that have ended, and the add requests that have ended
DoneLookup(q) == q.pc = "done" /\ q.route = "lookup"
DoneAdd(q) == q.pc = "done" /\ q.route = "add"

\* Nothing but a direct response: no handler ran and the store was not called
Direct(q, status, body) ==
    /\ q.exc = "none" /\ q.status = status /\ q.body = body
    /\ q.handler = <<>> /\ q.calls = <<>>

\* C1: a lookup request without an `op` parameter is answered 400
\* "Missing required argument: op", with no handler and no store call.
C1_MissingOpIs400 ==
    \A r \in Requests :
        (DoneLookup(req[r]) /\ ~req[r].op.present)
            => Direct(req[r], 400, <<"Missing required argument: op">>)

\* C2 as stated: with `op` present a handler runs exactly when the cleaned
\* name is get, index or vindex, and every other request is answered 501
\* "Operation not supported: {cleaned name}" with no handler and no store
\* call; the cleaned name resolves to no other member of the class.
C2_Original ==
    \A r \in Requests :
        (DoneLookup(req[r]) /\ req[r].op.present)
            => LET name == clean_op(req[r].op.value) IN
               /\ getattr(name).present => name \in Ops
               /\ IF name \in Ops
                  THEN req[r].handler = name
                  ELSE Direct(req[r], 501, <<"Operation not supported: ">> \o name)

\* C2 amended: with `op` present a handler runs exactly when the cleaned
\* name is get, index or vindex; a name that cleans to the empty string is
\* answered 400 "Missing required argument: op" and every other name 501
\* "Operation not supported: {cleaned name}", both with no handler and no
\* store call; the cleaned name resolves to no other member of the class.
C2_Dispatch ==
    \A r \in Requests :
        (DoneLookup(req[r]) /\ req[r].op.present)
            => LET name == clean_op(req[r].op.value) IN
               /\ getattr(name).present => name \in Ops
               /\ IF name \in Ops
                  THEN req[r].handler = name
                  ELSE IF name = <<>>
                  THEN Direct(req[r], 400, <<"Missing required argument: op">>)
                  ELSE Direct(req[r], 501, <<"Operation not supported: ">> \o name)

\* C2 case: `op=` is answered 400, and `op=__dict__`, the name of a member
\* that is no operation, cleans to `dict` and is answered 501
C2_Witness ==
    /\ \E r \in Requests :
          /\ DoneLookup(req[r]) /\ req[r].op = Some(<<>>)
          /\ req[r].status = 400 /\ req[r].handler = <<>>
    /\ \E r \in Requests :
          /\ DoneLookup(req[r]) /\ req[r].op = Some(S_dict)
          /\ req[r].status = 501 /\ req[r].handler = <<>>
          /\ req[r].body = <<"Operation not supported: ", "d", "i", "c", "t">>

\* The cleaning the specification describes: case-fold, then drop what is
\* not a letter
Fold(s) == SelectSeq(str_lower(s), LAMBDA c : c \in LowerAZ)

\* C3: every raw `op` whose letters, case-folded, spell a declared operation
\* invokes that operation's handler (op=Get!! invokes get).
C3_FoldedOpInvokesHandler ==
    \A r \in Requests :
        (DoneLookup(req[r]) /\ req[r].op.present /\ Fold(req[r].op.value) \in Ops)
            => req[r].handler = Fold(req[r].op.value)

\* C4: a get request with `search` that returns a response answers 200
\* text/plain with the exported bytes exactly when the key was found and the
\* export holds at least one byte, and 404 "No key matching search={term}"
\* in every other case.
C4_GetOutcome ==
    \A r \in Requests :
        LET q == req[r] IN
        (DoneLookup(q) /\ q.handler = S_get /\ q.search.present /\ q.exc = "none")
            => IF q.match = "found" /\ Len(q.keydata) > 0
               THEN q.status = 200 /\ q.mimetype = "text/plain" /\ q.body = q.keydata
               ELSE q.status = 404 /\ q.body = <<"No key matching search=">> \o q.term

\* A leading 0x prefix, in either case, and the length of a search string
\* once one such prefix is stripped
HasPrefix(s) == Len(s) >= 2 /\ s[1] = "0" /\ (s[2] = "x" \/ s[2] = "X")
NormLen(s) == IF HasPrefix(s) THEN Len(s) - 2 ELSE Len(s)

\* A key matches a term through one of its UIDs, or through a fingerprint
UidMatches(k, term) == \E i \in 1..Len(k.uids) : str_in(term, str_upper(k.uids[i]))
FprMatches(k, term) == \E i \in 1..Len(k.subkeys) : str_in(term, k.subkeys[i])

\* The list C5 describes: every fingerprint of every matching key
RECURSIVE ClaimedList(_, _)
ClaimedList(keys, term) ==
    IF keys = <<>> THEN <<>>
    ELSE (IF UidMatches(Head(keys), term) \/ FprMatches(Head(keys), term)
          THEN Head(keys).subkeys ELSE <<>>) \o ClaimedList(Tail(keys), term)

\* An index request with a search of four characters or more once
\* normalized, and the response a list calls for
IndexTerm(q) == /\ DoneLookup(q) /\ q.handler = S_index
                /\ q.search.present /\ NormLen(q.search.value) >= MinSearchLen
IndexAnswer(q, list) ==
    /\ q.exc = "none"
    /\ IF list # <<>>
       THEN q.status = 200 /\ q.mimetype = "text/plain" /\ q.body = join(list)
       ELSE q.status = 404 /\ q.body = <<"No keys matching search request: ">> \o q.term

\* C5: an index request with a term of four characters or more ends with
\* the list of every subkey fingerprint of every key of the store that
\* matches through a UID or through a fingerprint, in store order and
\* without de-duplication: 200 with the newline-joined list, 404 when it is
\* empty.
C5_IndexAllFingerprints ==
    [][\A r \in Requests :
          (req[r].pc # "done" /\ IndexTerm(req'[r]))
              => IndexAnswer(req'[r], ClaimedList(keylist(store'), req'[r].term))]_vars

\* C6: clean_search returns a value for every string s, and
\* clean_search(clean_search(s)) = clean_search(s).
C6_Idempotent ==
    phase = "cleaned" => (cleaned.exc = "none" /\ clean_search(cleaned.value) = cleaned)

\* C7: an add request with `keytext` ends in one outcome: text that cannot
\* be encoded -> 400 without an import; otherwise one import call, and engine
\* error -> 403, a result with imported keys -> 201, a result with none ->
\* 200 (both with "Keys imported:\n" and the identifiers), no result -> 404.
C7_AddOutcome ==
    \A r \in Requests :
        LET q == req[r] IN
        (DoneAdd(q) /\ q.keytext.present)
            => /\ q.exc = "none"
               /\ IF \E i \in 1..Len(q.keytext.value) : q.keytext.value[i] \in NonAsciiChars
                  THEN q.status = 400 /\ q.calls = <<>>
                  ELSE /\ q.calls = <<"import_">>
                       /\ q.answer = "GpgmeError" => q.status = 403
                       /\ q.answer = "None" => q.status = 404
                       /\ q.answer = "result" =>
                            /\ q.status = (IF q.imported >= 1 THEN 201 ELSE 200)
                            /\ q.body = <<"Keys imported:\n">> \o join(q.imports)

\* C7 case: a key already in the store is submitted again: 200, listed
C7_Witness ==
    \E r \in Requests :
        /\ DoneAdd(req[r]) /\ req[r].status = 200
        /\ req[r].imported = 0 /\ req[r].imports = <<FprA>>

\* C8: every request ends by returning a response with one of the seven
\* statuses; no exception leaves a handler.
C8_NoErrorEscapes ==
    \A r \in Requests :
        req[r].pc = "done" => (req[r].exc = "none" /\ req[r].status \in Statuses)

\* The keys of a store that a raw search parameter names by fingerprint
NamedBy(st, search) ==
    {k \in KeyNames : /\ \E i \in 1..Len(st) : st[i] = k
                      /\ \E i \in 1..Len(KeyRing[k].subkeys) :
                            \/ search = KeyRing[k].subkeys[i]
                            \/ search = <<"0", "x">> \o KeyRing[k].subkeys[i]}

\* Only add changes the store
StoreFrame ==
    store' # store => \E r \in Requests : /\ req[r].route = "add" /\ req[r].pc = "recv"
                                          /\ req'[r].pc = "done"

\* A get for a key that was in the store when the request was issued
\* answers 200 with what the store exported
FreshGet ==
    \A r \in Requests :
        LET q == req[r] IN
        (/\ DoneLookup(q) /\ q.handler = S_get /\ q.search.present
         /\ NamedBy(q.seen, q.search.value) # {})
            => /\ q.exc = "none" /\ q.status = 200 /\ q.body = q.keydata
               /\ q.calls = <<"get_key", "export">>
               /\ q.answer = "bytes" =>
                     \A k \in NamedBy(q.seen, q.search.value) : str_in(armor(k), q.body)

\* C9: only add changes the store (get, index and vindex leave it as it is),
\* and a get for a key issued after the add that imported it has completed
\* answers 200 with the store's export, never 404.
C9_LookupsReadOnlyAndFresh == [][StoreFrame /\ FreshGet']_vars

\* C10: requests rejected by validation are answered without a store call:
\* get without search -> 500, index without search -> 400, index with a
\* search under four characters once its 0x prefix is stripped -> 500,
\* vindex -> 501.
C10_ValidationBeforeStore ==
    \A r \in Requests :
        LET q == req[r]
            Answered(status, body) ==
                q.exc = "none" /\ q.status = status /\ q.body = body /\ q.calls = <<>>
        IN DoneLookup(q) =>
            /\ (q.handler = S_get /\ ~q.search.present)
                   => Answered(500, <<"Missing required search parameter">>)
            /\ (q.handler = S_index /\ ~q.search.present)
                   => Answered(400, <<"Missing required argument: search">>)
            /\ (q.handler = S_index /\ q.search.present
                    /\ NormLen(q.search.value) < MinSearchLen)
                   => Answered(500, <<"Search must be at least four characters">>)
            /\ q.handler = S_vindex
                   => Answered(501, <<"VIndex search not supported by this server.">>)

====
